---- MODULE Spec2Model ----
(***************************************************************************)
(* Model of src/table_inference_tools.py: class TableInferenceTools.        *)
(*                                                                         *)
(* Two specifications share the module:                                    *)
(*   Spec            one instance of TableInferenceTools receiving a        *)
(*                   sequence of get_table_schema(df, table_name) calls;   *)
(*                   the per-column loop of lines 49-50 is one step per     *)
(*                   column, _create_table_schema plus the return is one    *)
(*                   step.                                                  *)
(*   SpecClassifier  the decision of _infer_sqlalchemy_dtype (lines 83-130) *)
(*                   applied once to each column the input domain holds.    *)
(*                                                                         *)
(* Line 28 reads the name `logging`, which the module never imports; the    *)
(* model starts from the fields lines 30-35 set, i.e. from a construction   *)
(* in which that name resolves.                                             *)
(*                                                                         *)
(* Library behaviour the code relies on and the model spells out:           *)
(*  - an ordered dict keeps the position of a key that is assigned again;   *)
(*  - Table(name, metadata) without columns returns the Table object the    *)
(*    MetaData already holds under that name, when there is one;            *)
(*  - Table.append_column of a column whose name the table already has      *)
(*    replaces it in place (SQLAlchemy 1.4, with a deprecation warning) or  *)
(*    raises DuplicateColumnError (SQLAlchemy 2.0).  The source pins no     *)
(*    version, so the version is chosen once, nondeterministically.         *)
(***************************************************************************)
EXTENDS Integers, Sequences, FiniteSets, TLC

\* ---------------------------------------------------------------- bounds
MaxCalls == 3      \* get_table_schema calls made on the instance
MaxCols == 2       \* columns of one dataset

\* ------------------------------------------------------- input domains
ColNames == {"a", "b"}
TableNames == {"t1", "t2"}
SqlalchemyVersions == {"1.4", "2.0"}

None == "None"

\* what pandas.api.types.infer_dtype can report (line 84); the last three
\* are kinds no case of the match names
RecognisedKinds ==
    {"datetime64", "datetime", "timedelta64", "floating", "integer",
     "boolean", "date", "time", "complex"}
OtherKinds == {"string", "empty", "mixed"}
Kinds == RecognisedKinds \cup OtherKinds

\* col.dtype.name for integer columns: numpy dtypes, pandas' nullable
\* extension dtypes (capitalised names), and object columns of Python ints
IntegerDtypes ==
    {"int8", "uint8", "int16", "uint16", "int32", "uint32", "int64", "uint64",
     "Int8", "UInt8", "Int16", "UInt16", "Int32", "UInt32", "Int64", "UInt64",
     "object"}
\* col.dtype.name for floating columns, numpy and nullable
FloatingDtypes ==
    {"float16", "float32", "float64", "float128", "Float32", "Float64", "object"}
DatetimeDtypes == {"datetime64[ns]", "datetime64[ns, UTC]", "object"}

DtypesOf(kind) ==
    CASE kind = "integer" -> IntegerDtypes
      [] kind = "floating" -> FloatingDtypes
      [] kind \in {"datetime64", "datetime"} -> DatetimeDtypes
      [] kind = "timedelta64" -> {"timedelta64[ns]"}
      [] kind = "boolean" -> {"bool", "object"}
      [] kind = "complex" -> {"complex64", "complex128"}
      [] OTHER -> {"object"}

\* col.dt.tz (line 92): "absent" when the access raises AttributeError,
\* "naive" when it is None, "aware" when it is a timezone
DtStates == {"absent", "naive", "aware"}
\* getattr(col, "tz", None) (line 97): "none" when missing or None
TzStates == {"none", "aware"}

\* a column as the classifier sees it: the sniffed kind, the dtype name and
\* the two timezone lookups
Columns ==
    { c \in [kind : Kinds,
             dtype : UNION {DtypesOf(k) : k \in Kinds},
             dt : DtStates,
             tz : TzStates] :
        /\ c.dtype \in DtypesOf(c.kind)
        /\ c.kind \notin {"datetime64", "datetime"} => (c.dt = "absent" /\ c.tz = "none") }

\* ----------------------------------------------------- Abstract SQL types
TIMESTAMP_tz == "TIMESTAMP(timezone=True)"
DateTime == "DateTime"
BigInteger == "BigInteger"
Float23 == "Float(precision=23)"
Float53 == "Float(precision=53)"
SmallInteger == "SmallInteger"
Integer == "Integer"
Boolean == "Boolean"
Date == "Date"
Time == "Time"
Text == "Text"

SqlTypes ==
    {TIMESTAMP_tz, DateTime, BigInteger, Float23, Float53, SmallInteger,
     Integer, Boolean, Date, Time, Text}

\* the classification error the specification calls UnsupportedTypeError is
\* the ValueError of lines 116 and 128
UnsupportedTypeError == "ValueError"
MsgUint64 == "Unsigned 64 bit integer datatype is not supported"
MsgComplex == "Complex datatypes not supported"

\* outcome of one classifier run
Return(t) == [status |-> "return", type |-> t, error |-> "", msg |-> ""]
Raise(e, m) == [status |-> "raise", type |-> "", error |-> e, msg |-> m]
NoOutcome == [status |-> "none", type |-> "", error |-> "", msg |-> ""]

\* str.lower() on the dtype names of the domain (line 111)
lower(s) ==
    CASE s = "Int8" -> "int8"
      [] s = "UInt8" -> "uint8"
      [] s = "Int16" -> "int16"
      [] s = "UInt16" -> "uint16"
      [] s = "Int32" -> "int32"
      [] s = "UInt32" -> "uint32"
      [] s = "Int64" -> "int64"
      [] s = "UInt64" -> "uint64"
      [] s = "Float32" -> "float32"
      [] s = "Float64" -> "float64"
      [] OTHER -> s

\* ------------------------------------------------------- Type Classifier
\* lines 89-99: the two timezone lookups of a datetime64/datetime column;
\* the AttributeError of the first lookup is caught on line 94
InferDatetime_NoExcept(col) ==
    IF col.dt = "absent" THEN Raise("AttributeError", "Can only use .dt accessor with datetimelike values")
    ELSE IF col.dt = "aware" THEN Return(TIMESTAMP_tz) ELSE Return(DateTime)

InferDatetime(col) ==
    IF col.dt # "absent"
    THEN IF col.dt = "aware" THEN Return(TIMESTAMP_tz) ELSE Return(DateTime)
    ELSE IF col.tz # "none" THEN Return(TIMESTAMP_tz) ELSE Return(DateTime)

\* lines 105-109: col.dtype == "float32" compares the dtype with the string;
\* a numpy dtype equals it exactly when it is float32, a pandas extension
\* dtype only equals its own (capitalised) name
InferFloating(col) ==
    IF col.dtype = "float32" THEN Return(Float23) ELSE Return(Float53)

\* lines 110-118
InferInteger_Uint16Small(col) ==
    IF lower(col.dtype) \in {"int8", "uint8", "int16", "uint16"} THEN Return(SmallInteger)
    ELSE IF lower(col.dtype) \in {"int32"} THEN Return(Integer)
    ELSE IF lower(col.dtype) = "uint64" THEN Raise(UnsupportedTypeError, MsgUint64)
    ELSE Return(BigInteger)

InferInteger(col) ==
    IF lower(col.dtype) \in {"int8", "uint8", "int16"} THEN Return(SmallInteger)
    ELSE IF lower(col.dtype) \in {"uint16", "int32"} THEN Return(Integer)
    ELSE IF lower(col.dtype) = "uint64" THEN Raise(UnsupportedTypeError, MsgUint64)
    ELSE Return(BigInteger)

\* lines 87-130: the match over the sniffed kind, first case that matches
infer_sqlalchemy_dtype_ComplexAsText(col) ==
    CASE col.kind \in {"datetime64", "datetime"} -> InferDatetime(col)
      [] col.kind = "timedelta64" -> Return(BigInteger)
      [] col.kind = "floating" -> InferFloating(col)
      [] col.kind = "integer" -> InferInteger(col)
      [] col.kind = "boolean" -> Return(Boolean)
      [] col.kind = "date" -> Return(Date)
      [] col.kind = "time" -> Return(Time)
      [] OTHER -> Return(Text)

infer_sqlalchemy_dtype(col) ==
    CASE col.kind \in {"datetime64", "datetime"} -> InferDatetime(col)
      [] col.kind = "timedelta64" -> Return(BigInteger)
      [] col.kind = "floating" -> InferFloating(col)
      [] col.kind = "integer" -> InferInteger(col)
      [] col.kind = "boolean" -> Return(Boolean)
      [] col.kind = "date" -> Return(Date)
      [] col.kind = "time" -> Return(Time)
      [] col.kind = "complex" -> Raise(UnsupportedTypeError, MsgComplex)
      [] OTHER -> Return(Text)

\* ------------------------------------------------------- ordered dicts
\* a dict is the sequence of its items in insertion order
Keys(d) == [i \in 1..Len(d) |-> d[i].name]
KeySet(d) == {d[i].name : i \in 1..Len(d)}
\* d[k] = v: a key already present keeps its position
DictSet(d, k, v) ==
    IF k \in KeySet(d)
    THEN [i \in 1..Len(d) |-> IF d[i].name = k THEN [d[i] EXCEPT !.val = v] ELSE d[i]]
    ELSE Append(d, [name |-> k, val |-> v])

\* ------------------------------------------------------------ datasets
\* a DataFrame: its columns in order, the names unique
RECURSIVE SeqsUpTo(_, _)
SeqsUpTo(S, n) ==
    IF n = 0 THEN {<<>>}
    ELSE LET shorter == SeqsUpTo(S, n - 1)
         IN shorter \cup {Append(q, x) : q \in {r \in shorter : Len(r) = n - 1}, x \in S}

\* the columns the call sequences are run on: an int32 column, a uint64
\* column (which the classifier rejects) and a column of strings
FrameColumns ==
    {[kind |-> "integer", dtype |-> "int32", dt |-> "absent", tz |-> "none"],
     [kind |-> "integer", dtype |-> "uint64", dt |-> "absent", tz |-> "none"],
     [kind |-> "string", dtype |-> "object", dt |-> "absent", tz |-> "none"]}

DataFrames ==
    { df \in SeqsUpTo([name : ColNames, col : FrameColumns], MaxCols) :
        \A i, j \in 1..Len(df) : df[i].name = df[j].name => i = j }

columns(df) == [i \in 1..Len(df) |-> df[i].name]

\* ------------------------------------------------------- instance state
VARIABLES
    sqlalchemy_version,  \* the SQLAlchemy release the process imports
    data,                \* self.data
    table_name,          \* self.table_name
    column_type_map,     \* self.column_type_map, an ordered dict
    pd_api_dtype_map,    \* self.pd_api_dtype_map, an ordered dict
    table_schema,        \* self.table_schema: the Table it refers to, or None
    metadata,            \* self.metadata: Table name -> columns of that Table
    pc,                  \* position of the caller / of get_table_schema
    idx,                 \* position of the loop of line 49 in data.columns
    ret,                 \* what the call returned to the caller, or None
    raised,              \* exception class that left the call, or "none"
    calls,               \* get_table_schema calls started so far
    col,                 \* the column the classifier ran on last
    out,                 \* outcome of the classifier's last run
    prev,                \* the caller's record of the call before this one
    returned             \* Tables handed to the caller so far

vars ==
    <<sqlalchemy_version, data, table_name, column_type_map, pd_api_dtype_map,
      table_schema, metadata, pc, idx, ret, raised, calls, col, out, prev,
      returned>>

NoColumn == [kind |-> "", dtype |-> "", dt |-> "absent", tz |-> "none"]
NoPrev == [df |-> <<>>, tn |-> None, pc |-> "idle", cols |-> <<>>]
NoTables == [t \in {} |-> <<>>]

\* lines 30-35; data is None until line 46 assigns it and is not read
\* before, the model holds the frame without columns in its place
InstanceInit ==
    /\ data = <<>>
    /\ column_type_map = <<>>
    /\ pd_api_dtype_map = <<>>
    /\ table_name = None
    /\ table_schema = None
    /\ metadata = NoTables

Init ==
    /\ sqlalchemy_version \in SqlalchemyVersions
    /\ InstanceInit
    /\ pc = "idle"
    /\ idx = 1
    /\ ret = None
    /\ raised = "none"
    /\ calls = 0
    /\ col = NoColumn
    /\ out = NoOutcome
    /\ prev = NoPrev
    /\ returned = {}

\* Table.append_column(Column(name, type)) on a Table with columns cols
append_column(cols, name, type) ==
    IF name \in KeySet(cols)
    THEN IF sqlalchemy_version = "2.0"
         THEN [ok |-> FALSE, cols |-> cols]
         ELSE [ok |-> TRUE, cols |-> DictSet(cols, name, type)]
    ELSE [ok |-> TRUE, cols |-> Append(cols, [name |-> name, val |-> type])]

\* lines 58-59: the loop over column_type_map from item i on; it stops at
\* the first append_column that raises
RECURSIVE AppendColumns(_, _, _)
AppendColumns(cols, ctm, i) ==
    IF i > Len(ctm) THEN [ok |-> TRUE, cols |-> cols]
    ELSE LET r == append_column(cols, ctm[i].name, ctm[i].val)
         IN IF r.ok THEN AppendColumns(r.cols, ctm, i + 1) ELSE r

\* line 56: Table(table_name, self.metadata) gives the Table the MetaData
\* holds under that name, or a new one without columns
TableColumns(md, tn) == IF tn \in DOMAIN md THEN md[tn] ELSE <<>>

\* lines 46-47: a caller invokes get_table_schema(df, tn)
GetTableSchema(df, tn) ==
    /\ pc \in {"idle", "returned", "raised"}
    /\ calls < MaxCalls
    /\ data' = df
    /\ table_name' = tn
    /\ idx' = 1
    /\ pc' = "loop"
    /\ ret' = None
    /\ raised' = "none"
    /\ calls' = calls + 1
    /\ prev' = [df |-> data, tn |-> table_name, pc |-> pc,
                cols |-> IF pc = "returned" THEN metadata[ret] ELSE <<>>]
    /\ UNCHANGED <<sqlalchemy_version, column_type_map, pd_api_dtype_map,
                   table_schema, metadata, col, out, returned>>

\* lines 49-50 with 83-130: one iteration of the loop; an exception of the
\* classifier leaves get_table_schema
InferColumn_SkipFailed ==
    /\ pc = "loop"
    /\ idx <= Len(data)
    /\ LET c == data[idx]
           r == infer_sqlalchemy_dtype(c.col)
       IN /\ col' = c.col
          /\ out' = r
          /\ pd_api_dtype_map' = DictSet(pd_api_dtype_map, c.name, c.col.kind)
          /\ column_type_map' =
                IF r.status = "return" THEN DictSet(column_type_map, c.name, r.type)
                ELSE column_type_map
          /\ idx' = idx + 1
          /\ UNCHANGED <<pc, raised>>
    /\ UNCHANGED <<sqlalchemy_version, data, table_name, table_schema, metadata,
                   ret, calls, prev, returned>>

InferColumn ==
    /\ pc = "loop"
    /\ idx <= Len(data)
    /\ LET c == data[idx]
           r == infer_sqlalchemy_dtype(c.col)
       IN /\ col' = c.col
          /\ out' = r
          /\ pd_api_dtype_map' = DictSet(pd_api_dtype_map, c.name, c.col.kind)
          /\ IF r.status = "return"
             THEN /\ column_type_map' = DictSet(column_type_map, c.name, r.type)
                  /\ idx' = idx + 1
                  /\ UNCHANGED <<pc, raised>>
             ELSE /\ pc' = "raised"
                  /\ raised' = r.error
                  /\ UNCHANGED <<column_type_map, idx>>
    /\ UNCHANGED <<sqlalchemy_version, data, table_name, table_schema, metadata,
                   ret, calls, prev, returned>>

\* lines 52-53 with 55-59: _create_table_schema and the return
CreateTableSchema ==
    /\ pc = "loop"
    /\ idx > Len(data)
    /\ LET r == AppendColumns(TableColumns(metadata, table_name), column_type_map, 1)
       IN /\ table_schema' = table_name
          /\ metadata' = [t \in DOMAIN metadata \cup {table_name} |->
                            IF t = table_name THEN r.cols ELSE metadata[t]]
          /\ IF r.ok
             THEN /\ pc' = "returned"
                  /\ ret' = table_name
                  /\ returned' = returned \cup {table_name}
                  /\ UNCHANGED raised
             ELSE /\ pc' = "raised"
                  /\ raised' = "DuplicateColumnError"
                  /\ UNCHANGED <<ret, returned>>
    /\ UNCHANGED <<sqlalchemy_version, data, table_name, column_type_map,
                   pd_api_dtype_map, idx, calls, col, out, prev>>

Next ==
    \/ \E df \in DataFrames, tn \in TableNames : GetTableSchema(df, tn)
    \/ InferColumn
    \/ CreateTableSchema

Spec == Init /\ [][Next]_vars

\* ---------------------------------------- the classifier on its own
\* the instance holds a frame with the one column "a"
InitClassifier ==
    /\ sqlalchemy_version \in SqlalchemyVersions
    /\ InstanceInit
    /\ pc = "input"
    /\ idx = 1
    /\ ret = None
    /\ raised = "none"
    /\ calls = 0
    /\ col \in Columns
    /\ out = NoOutcome
    /\ prev = NoPrev
    /\ returned = {}

\* lines 83-130: _infer_sqlalchemy_dtype("a")
InferSqlalchemyDtype ==
    /\ pc = "input"
    /\ pd_api_dtype_map' = DictSet(pd_api_dtype_map, "a", col.kind)
    /\ out' = infer_sqlalchemy_dtype(col)
    /\ pc' = "classified"
    /\ raised' = IF out'.status = "raise" THEN out'.error ELSE "none"
    /\ UNCHANGED <<sqlalchemy_version, data, table_name, column_type_map,
                   table_schema, metadata, idx, ret, calls, col, prev, returned>>

NextClassifier == InferSqlalchemyDtype

SpecClassifier == InitClassifier /\ [][NextClassifier]_vars

\* get_table_schema(df, tn) on an instance fresh from __init__ (lines 30-35
\* then 46-59), computed in one go
RECURSIVE InferFrom(_, _, _)
InferFrom(df, i, ctm) ==
    IF i > Len(df) THEN [status |-> "return", error |-> "none", ctm |-> ctm]
    ELSE LET r == infer_sqlalchemy_dtype(df[i].col)
         IN IF r.status = "return"
            THEN InferFrom(df, i + 1, DictSet(ctm, df[i].name, r.type))
            ELSE [status |-> "raise", error |-> r.error, ctm |-> ctm]

FreshOutcome(df, tn) ==
    LET r == InferFrom(df, 1, <<>>)
    IN IF r.status = "return"
       THEN [status |-> "return", error |-> "none", name |-> tn,
             cols |-> AppendColumns(<<>>, r.ctm, 1).cols]
       ELSE [status |-> "raise", error |-> r.error, name |-> None, cols |-> <<>>]

\* ================================================================ claims
Finished == pc \in {"returned", "raised"}
\* the (column name, type) sequence of a Table the MetaData holds
ColumnsOf(t) == metadata[t]
Position(names, n) == CHOOSE j \in 1..Len(names) : names[j] = n

\* C1: every call that returns gives a Table in which each column name of
\* df occurs exactly once and the columns of df keep df's relative order.
C1_EveryColumnOnceInOrder ==
    pc = "returned" =>
        LET names == Keys(ColumnsOf(ret))
        IN /\ \A i \in 1..Len(data) :
                Cardinality({j \in 1..Len(names) : names[j] = data[i].name}) = 1
           /\ \A i, k \in 1..Len(data) :
                i < k => Position(names, data[i].name) < Position(names, data[k].name)

\* C2: every call that returns gives a Table whose column-name sequence is
\* exactly the column-name sequence of df.
C2_ColumnsExactlyThoseOfDf ==
    pc = "returned" => Keys(ColumnsOf(ret)) = columns(data)

\* C3: a classifier failure on a column leaves get_table_schema at once: the
\* call ends raised at that column, returns nothing and touches no Table;
\* after it nothing runs but the caller's next call, so no later column is
\* classified; and a call that returns has classified every column of df.
C3_AllOrNothing ==
    [][ /\ (pc = "loop" /\ idx <= Len(data)
              /\ infer_sqlalchemy_dtype(data[idx].col).status = "raise")
           => /\ pc' = "raised"
              /\ raised' = UnsupportedTypeError
              /\ ret' = None
              /\ idx' = idx
              /\ metadata' = metadata
              /\ table_schema' = table_schema
              /\ column_type_map' = column_type_map
        /\ (pc = "raised" /\ raised = UnsupportedTypeError)
           => /\ pc' = "loop"
              /\ calls' = calls + 1
              /\ metadata' = metadata
              /\ pd_api_dtype_map' = pd_api_dtype_map
        /\ pc' = "returned"
           => \A i \in 1..Len(data') :
                /\ infer_sqlalchemy_dtype(data'[i].col).status = "return"
                /\ data'[i].name \in KeySet(metadata'[ret'])
      ]_vars

\* C3 witness: the call failed on a column that has a column after it, and
\* that later column was never classified
C3_Witness ==
    /\ pc = "raised"
    /\ raised = UnsupportedTypeError
    /\ idx < Len(data)
    /\ data[idx + 1].name \notin KeySet(pd_api_dtype_map)
    /\ ret = None

\* C4: a call that repeats the dataset and table name of the call right
\* before it, which returned, returns too, with the same (name, type)
\* sequence.
C4_Idempotent ==
    (Finished /\ prev.pc = "returned" /\ prev.df = data /\ prev.tn = table_name)
        => (pc = "returned" /\ ColumnsOf(ret) = prev.cols)

\* C5: the outcome of a call is the outcome the same call has on a fresh
\* instance: the same error, or a Table of the same name and the same
\* (name, type) sequence.
C5_OutcomeOfInputsAlone ==
    Finished =>
        LET f == FreshOutcome(data, table_name)
        IN IF f.status = "raise"
           THEN pc = "raised" /\ raised = f.error
           ELSE pc = "returned" /\ ret = f.name /\ ColumnsOf(ret) = f.cols

\* C6: no step changes the columns of a Table already handed to the caller,
\* and a call that returns hands over a Table not handed over before.
C6_ReturnedTablesImmutable ==
    [][ /\ \A t \in returned : metadata'[t] = metadata[t]
        /\ (pc' = "returned" /\ pc # "returned") => ret' \notin returned
      ]_vars

\* C7: an integer column gives SmallInteger for int8, uint8, int16; Integer
\* for uint16, int32; the classification error for uint64; BigInteger for
\* every other width.
C7_IntegerWidths ==
    (pc = "classified" /\ col.kind = "integer") =>
        IF col.dtype \in {"int8", "Int8", "uint8", "UInt8", "int16", "Int16"}
        THEN out = Return(SmallInteger)
        ELSE IF col.dtype \in {"uint16", "UInt16", "int32", "Int32"}
        THEN out = Return(Integer)
        ELSE IF col.dtype \in {"uint64", "UInt64"}
        THEN out.status = "raise" /\ out.error = UnsupportedTypeError
        ELSE out = Return(BigInteger)

\* C7 witness: a nullable unsigned 64-bit column was rejected
C7_Witness ==
    /\ pc = "classified"
    /\ col.kind = "integer"
    /\ col.dtype = "UInt64"
    /\ out.status = "raise"

\* C8: a datetime64/datetime column gives TIMESTAMP(timezone=True) when the
\* value sequence's timezone is set or, that path being absent, the
\* wrapper's timezone is set; DateTime otherwise; the failed lookup never
\* leaves the classifier as an error.
C8_DatetimeTimezone ==
    (pc = "classified" /\ col.kind \in {"datetime64", "datetime"}) =>
        IF col.dt = "aware" \/ (col.dt = "absent" /\ col.tz = "aware")
        THEN out = Return(TIMESTAMP_tz)
        ELSE out = Return(DateTime)

\* C8 witness: the first lookup failed and the wrapper carried a timezone
C8_Witness ==
    /\ pc = "classified"
    /\ col.kind = "datetime"
    /\ col.dt = "absent"
    /\ col.tz = "aware"
    /\ out = Return(TIMESTAMP_tz)

\* C9: the classifier fails exactly for unsigned 64-bit integer columns and
\* for complex columns, with the classification error (and the complex
\* message for complex); everything else gives one Abstract SQL Type, and
\* every kind outside the recognised list gives Text.
C9_FailsExactlyTwice ==
    pc = "classified" =>
        /\ out.status \in {"return", "raise"}
        /\ out.status = "raise"
             <=> \/ (col.kind = "integer" /\ col.dtype \in {"uint64", "UInt64"})
                 \/ col.kind = "complex"
        /\ out.status = "raise" => out.error = UnsupportedTypeError
        /\ col.kind = "complex" => out.msg = MsgComplex
        /\ out.status = "return" => out.type \in SqlTypes
        /\ col.kind \notin RecognisedKinds => out = Return(Text)

\* C9 witness: a complex column was rejected with the complex message
C9_Witness ==
    /\ pc = "classified"
    /\ col.kind = "complex"
    /\ out = Raise(UnsupportedTypeError, MsgComplex)

\* C10: a floating column of 32-bit storage gives Float(precision=23), of
\* any other storage Float(precision=53).
C10_FloatingPrecision ==
    (pc = "classified" /\ col.kind = "floating") =>
        IF col.dtype \in {"float32", "Float32"}
        THEN out = Return(Float23)
        ELSE out = Return(Float53)

====
